---- MODULE Spec2Model ----
(***************************************************************************)
(* Model of app.py: a Streamlit page that loads a cached clustering model, *)
(* assigns the form's person to a cluster, resolves the cluster's display  *)
(* name and description, filters the cached participant table and draws    *)
(* one histogram per attribute column.                                     *)
(*                                                                         *)
(* One Render step is one top-to-bottom run of the script.  The three      *)
(* Streamlit caches live for the life of the process and are the only      *)
(* state a render leaves behind; the three files can change between        *)
(* renders.  Texts of the page are written without Polish diacritics.      *)
(***************************************************************************)
EXTENDS Integers, Sequences, FiniteSets, TLC

\* ------------------------------------------------------------------ bounds
MaxMtime == 2       \* modification times 1..MaxMtime of the artifact
MaxSize == 2        \* byte sizes 1..MaxSize of the artifact
MaxStat == 11       \* mtime and size range of the signature probe
LoadCap == 3        \* the load counter saturates here
MaxWrites == 2      \* how many times the files change in one behaviour

\* ------------------------------------------------- settings and file paths
MODEL_NAME == "model_4"
DATA_FILE == "data/data.csv"
CLUSTERS_JSON == "cfg/nazwy_klastrow_4.json"

NoPredictor == "none"
Predictors == {"A", "B"}            \* contents an artifact file can hold

\* ------------------------------------------------------------ sidebar form
AgeChoices == <<"<18", "18-24", "25-34", "35-44", "45-54", "55-64", ">=65", "unknown">>
EduChoices == <<"Podstawowe", "Srednie", "Wyzsze">>
AnimalChoices == <<"Brak ulubionych", "Psy", "Koty", "Koty i Psy", "Inne">>
PlaceChoices == <<"Nad woda", "W lesie", "W gorach", "Inne">>
GenderChoices == <<"Mezczyzna", "Kobieta">>

\* the first two options of a widget
Offered(choices) == {choices[1], choices[2]}

\* person_df: the one-row frame built from the five widgets
person_df(age, edu_level, fav_animals, fav_place, gender) ==
    [age |-> age, edu_level |-> edu_level, fav_animals |-> fav_animals,
     fav_place |-> fav_place, gender |-> gender]

FormInputs ==
    {person_df(a, EduChoices[1], AnimalChoices[1], PlaceChoices[1], g) :
        a \in Offered(AgeChoices), g \in Offered(GenderChoices)}

AttrCols == {"age", "edu_level", "fav_animals", "fav_place", "gender"}

\* ------------------------------------------------------- cluster identifiers
\* A cluster id is an integer or a string, as the predictor produces it.
IntId(n) == [ty |-> "int", i |-> n, s |-> ""]
StrId(t) == [ty |-> "str", i |-> 0, s |-> t]
NoId == [ty |-> "none", i |-> 0, s |-> ""]

\* str(predicted_cluster_id), also the {..} of an f-string
PyStr(id) == IF id.ty = "int" THEN ToString(id.i) ELSE id.s

\* ------------------------------------------------------------ the predictor
\* predict_model is opaque; two sample predictors stand for two artifacts.
\* "A" yields integer ids from the gender, "B" string ids from the age.
Field(row, c) == IF c \in DOMAIN row THEN row[c] ELSE "nan"

ClusterOf(model, row) ==
    IF model = "A"
    THEN (IF Field(row, "gender") = "Kobieta" THEN IntId(1) ELSE IntId(0))
    ELSE (IF Field(row, "age") = "<18" THEN StrId("0") ELSE StrId("2"))

\* predict_model(model, data=rows): the rows with their Cluster value
predict_model(model, rows) ==
    [k \in 1..Len(rows) |-> [row |-> rows[k], Cluster |-> ClusterOf(model, rows[k])]]

\* --------------------------------------------------------------- the files
NoArtifact == [present |-> FALSE, mtime |-> 0, size |-> 0, content |-> NoPredictor]
Artifacts ==
    {[present |-> TRUE, mtime |-> t, size |-> z, content |-> c] :
        t \in 1..MaxMtime, z \in 1..MaxSize, c \in Predictors}

NoMeta == [present |-> FALSE, map |-> <<>>]
MetaA ==
    [present |-> TRUE,
     map |-> ("0" :> [name |-> "Explorers", description |-> "Curious and active."])
          @@ ("1" :> [name |-> "Homebodies"])]
MetaB ==
    [present |-> TRUE,
     map |-> ("0" :> [name |-> "Pioneers", description |-> "Restless."])
          @@ ("1" :> [description |-> "Quiet."])]
MetaFiles == {MetaA, MetaB}

Row(a, g) == person_df(a, EduChoices[2], AnimalChoices[2], PlaceChoices[2], g)
NoAge(r) == [c \in {"edu_level", "fav_animals", "gender"} |-> r[c]]

NoData == [present |-> FALSE, cols |-> {}, rows |-> <<>>]
DataA ==
    [present |-> TRUE, cols |-> AttrCols,
     rows |-> <<Row("<18", "Kobieta"), Row("18-24", "Mezczyzna"), Row("<18", "Mezczyzna")>>]
DataB ==
    [present |-> TRUE, cols |-> {"edu_level", "fav_animals", "gender"},
     rows |-> <<NoAge(Row("<18", "Kobieta")), NoAge(Row("<18", "Kobieta"))>>]
DataC == [present |-> TRUE, cols |-> AttrCols, rows |-> <<>>]
DataFiles == {DataA, DataB, DataC}

NoTable == [cols |-> {}, rows |-> <<>>, by |-> NoPredictor]

\* ------------------------------------------------------------------- state
VARIABLES
    artifact,     \* models/model_4.pkl
    metaFile,     \* cfg/nazwy_klastrow_4.json
    dataFile,     \* data/data.csv
    modelCache,   \* st.cache_resource of get_model: model name -> predictor
    metaCache,    \* st.cache_data of get_cluster_names_and_descriptions: path -> mapping
    dataCache,    \* st.cache_data of get_all_participants: <<path, signature>> -> table
    out,          \* the elements the latest render put on the page, in order
    run,          \* the locals of the latest render
    loads,        \* how many times load_model ran in this process
    calls,        \* key and result of the get_all_participants calls that returned in this process
    writes,       \* how many times a file has changed so far
    probe         \* the last two results of the signature probe

vars == <<artifact, metaFile, dataFile, modelCache, metaCache, dataCache,
          out, run, loads, calls, writes, probe>>

\* ------------------------------------------------------- page elements
Sidebar ==
    <<[kind |-> "sidebar.header", text |-> "Powiedz nam cos o sobie"],
      [kind |-> "sidebar.markdown",
       text |-> "Pomozemy Ci znalezc osoby o podobnych zainteresowaniach."],
      [kind |-> "sidebar.widgets", text |-> "Wiek, Wyksztalcenie, Ulubione zwierzeta, Ulubione miejsce, Plec"]>>

StError(text) == [kind |-> "error", text |-> text]
StException(text) == [kind |-> "exception", text |-> text]
StHeader(text) == [kind |-> "header", text |-> text]
StMarkdown(text) == [kind |-> "markdown", text |-> text]
StMetric(label, value) == [kind |-> "metric", text |-> label, value |-> value]
StInfo(text) == [kind |-> "info", text |-> text]

\* px.histogram(df, x=col): the count of rows per value of the column
\* (sort_values("age") reorders the rows and leaves the counts alone)
Histogram(rows, col) ==
    [v \in {rows[k].row[col] : k \in 1..Len(rows)} |->
        Cardinality({k \in 1..Len(rows) : rows[k].row[col] = v})]

StPlotlyChart(rows, col, title) ==
    [kind |-> "chart", text |-> title, x |-> col, hist |-> Histogram(rows, col)]

\* --------------------------------------------------------- cached loaders
\* get_model as it would be without the cache decorator: every call loads
get_model_NoCache(model_name, cache, file) ==
    IF file.present
    THEN [ok |-> TRUE, value |-> file.content,
          cache |-> (model_name :> file.content) @@ cache, loaded |-> TRUE]
    ELSE [ok |-> FALSE, value |-> NoPredictor, cache |-> cache, loaded |-> FALSE]

\* get_model with a cache that follows the artifact: a cached predictor is
\* dropped when the file holds another one
get_model_Reload(model_name, cache, file) ==
    IF model_name \in DOMAIN cache /\ (~file.present \/ cache[model_name] = file.content)
    THEN [ok |-> TRUE, value |-> cache[model_name], cache |-> cache, loaded |-> FALSE]
    ELSE IF file.present
    THEN [ok |-> TRUE, value |-> file.content,
          cache |-> (model_name :> file.content) @@ cache, loaded |-> FALSE]
    ELSE [ok |-> FALSE, value |-> NoPredictor, cache |-> cache, loaded |-> FALSE]

\* get_model under st.cache_resource.  load_model raises when the artifact
\* is missing; a call that raises stores nothing.
get_model(model_name, cache, file) ==
    IF model_name \in DOMAIN cache
    THEN [ok |-> TRUE, value |-> cache[model_name], cache |-> cache, loaded |-> FALSE]
    ELSE IF file.present
    THEN [ok |-> TRUE, value |-> file.content,
          cache |-> (model_name :> file.content) @@ cache, loaded |-> TRUE]
    ELSE [ok |-> FALSE, value |-> NoPredictor, cache |-> cache, loaded |-> FALSE]

\* get_model_signature with the fields joined without a separator
get_model_signature_NoSep(model_name, file) ==
    IF file.present
    THEN model_name \o ToString(file.mtime) \o ToString(file.size)
    ELSE model_name

\* get_model_signature: name:mtime:size, or the bare name when stat fails
get_model_signature(model_name, file) ==
    IF file.present
    THEN model_name \o ":" \o ToString(file.mtime) \o ":" \o ToString(file.size)
    ELSE model_name

\* get_cluster_names_and_descriptions answering a missing file with an empty
\* mapping instead of the error and the stop
get_cluster_names_and_descriptions_NoStop(json_path, cache, file) ==
    IF json_path \in DOMAIN cache
    THEN [ok |-> TRUE, value |-> cache[json_path], cache |-> cache, read |-> FALSE,
          error |-> ""]
    ELSE [ok |-> TRUE, value |-> file.map, cache |-> (json_path :> file.map) @@ cache,
          read |-> file.present, error |-> ""]

\* get_cluster_names_and_descriptions reading the file on every call
get_cluster_names_and_descriptions_NoCache(json_path, cache, file) ==
    IF ~file.present
    THEN [ok |-> FALSE, value |-> <<>>, cache |-> cache, read |-> FALSE,
          error |-> "Brak pliku z nazwami/objasnieniami klastrow: " \o json_path]
    ELSE [ok |-> TRUE, value |-> file.map, cache |-> (json_path :> file.map) @@ cache,
          read |-> TRUE, error |-> ""]

\* get_cluster_names_and_descriptions under st.cache_data, keyed by the path.
\* st.stop() inside the body ends the run and stores nothing.
get_cluster_names_and_descriptions(json_path, cache, file) ==
    IF json_path \in DOMAIN cache
    THEN [ok |-> TRUE, value |-> cache[json_path], cache |-> cache, read |-> FALSE,
          error |-> ""]
    ELSE IF ~file.present
    THEN [ok |-> FALSE, value |-> <<>>, cache |-> cache, read |-> FALSE,
          error |-> "Brak pliku z nazwami/objasnieniami klastrow: " \o json_path]
    ELSE [ok |-> TRUE, value |-> file.map, cache |-> (json_path :> file.map) @@ cache,
          read |-> TRUE, error |-> ""]

\* get_all_participants with model_sig left out of the cache key
get_all_participants_PathKey(data_path, model, model_sig, cache, file, hasCluster) ==
    LET key == <<data_path, "">> IN
    IF key \in DOMAIN cache
    THEN [ok |-> TRUE, value |-> cache[key], cache |-> cache, computed |-> FALSE,
          stage |-> "", error |-> ""]
    ELSE IF ~file.present
    THEN [ok |-> FALSE, value |-> NoTable, cache |-> cache, computed |-> FALSE,
          stage |-> "participants", error |-> "Brak pliku z danymi: " \o data_path]
    ELSE IF ~hasCluster
    THEN [ok |-> FALSE, value |-> NoTable, cache |-> cache, computed |-> FALSE,
          stage |-> "bulk",
          error |-> "Wynik predict_model nie zawiera kolumny 'Cluster'. Sprawdz zgodnosc modelu i danych."]
    ELSE LET df_with_clusters ==
                 [cols |-> file.cols \cup {"Cluster"},
                  rows |-> predict_model(model, file.rows),
                  by |-> model]
         IN  [ok |-> TRUE, value |-> df_with_clusters,
              cache |-> (key :> df_with_clusters) @@ cache, computed |-> TRUE,
              stage |-> "", error |-> ""]

\* get_all_participants under st.cache_data.  _model is not part of the key:
\* the key is <<data_path, model_sig>>.  hasCluster is whether the bulk
\* predict_model result carries the Cluster column.
get_all_participants(data_path, model, model_sig, cache, file, hasCluster) ==
    LET key == <<data_path, model_sig>> IN
    IF key \in DOMAIN cache
    THEN [ok |-> TRUE, value |-> cache[key], cache |-> cache, computed |-> FALSE,
          stage |-> "", error |-> ""]
    ELSE IF ~file.present
    THEN [ok |-> FALSE, value |-> NoTable, cache |-> cache, computed |-> FALSE,
          stage |-> "participants", error |-> "Brak pliku z danymi: " \o data_path]
    ELSE IF ~hasCluster
    THEN [ok |-> FALSE, value |-> NoTable, cache |-> cache, computed |-> FALSE,
          stage |-> "bulk",
          error |-> "Wynik predict_model nie zawiera kolumny 'Cluster'. Sprawdz zgodnosc modelu i danych."]
    ELSE LET df_with_clusters ==
                 [cols |-> file.cols \cup {"Cluster"},
                  rows |-> predict_model(model, file.rows),
                  by |-> model]
         IN  [ok |-> TRUE, value |-> df_with_clusters,
              cache |-> (key :> df_with_clusters) @@ cache, computed |-> TRUE,
              stage |-> "", error |-> ""]

\* ------------------------------------------------------------ presentation
\* cluster_name looking the raw id up: an integer is no key of the mapping
cluster_name_RawKey(cluster_meta, id) ==
    IF id.ty = "int" \/ id.s \notin DOMAIN cluster_meta
    THEN "Klaster " \o PyStr(id)
    ELSE IF "name" \in DOMAIN cluster_meta[id.s]
         THEN cluster_meta[id.s].name
         ELSE "Klaster " \o PyStr(id)

\* the name and the description of the predicted cluster
cluster_name(cluster_meta, id) ==
    IF PyStr(id) \notin DOMAIN cluster_meta
    THEN "Klaster " \o PyStr(id)
    ELSE IF "name" \in DOMAIN cluster_meta[PyStr(id)]
         THEN cluster_meta[PyStr(id)].name
         ELSE "Klaster " \o PyStr(id)

cluster_desc(cluster_meta, id) ==
    IF PyStr(id) \notin DOMAIN cluster_meta
    THEN "Brak opisu dla tego klastra. Uzupelnij plik cfg/nazwy_klastrow_4.json."
    ELSE IF "description" \in DOMAIN cluster_meta[PyStr(id)]
         THEN cluster_meta[PyStr(id)].description
         ELSE "Brak opisu dla tego klastra."

\* the filter comparing the column with the string form of the id
same_cluster_df_StrKey(all_df, id) ==
    [cols |-> all_df.cols,
     rows |-> SelectSeq(all_df.rows, LAMBDA r : r.Cluster = StrId(PyStr(id)))]

\* all_df[all_df["Cluster"] == predicted_cluster_id]
same_cluster_df(all_df, id) ==
    [cols |-> all_df.cols,
     rows |-> SelectSeq(all_df.rows, LAMBDA r : r.Cluster = id)]

ChartIf(df, col, title) ==
    IF col \in df.cols THEN <<StPlotlyChart(df.rows, col, title)>> ELSE <<>>

\* the five chart blocks as one if/elif chain: only the first one is drawn
Charts_FirstOnly(df) ==
    IF "age" \in df.cols THEN ChartIf(df, "age", "Rozklad wieku w grupie")
    ELSE IF "edu_level" \in df.cols
    THEN ChartIf(df, "edu_level", "Rozklad wyksztalcenia w grupie")
    ELSE IF "fav_animals" \in df.cols
    THEN ChartIf(df, "fav_animals", "Rozklad ulubionych zwierzat w grupie")
    ELSE IF "fav_place" \in df.cols
    THEN ChartIf(df, "fav_place", "Rozklad ulubionych miejsc w grupie")
    ELSE ChartIf(df, "gender", "Rozklad plci w grupie")

Charts(df) ==
       ChartIf(df, "age", "Rozklad wieku w grupie")
    \o ChartIf(df, "edu_level", "Rozklad wyksztalcenia w grupie")
    \o ChartIf(df, "fav_animals", "Rozklad ulubionych zwierzat w grupie")
    \o ChartIf(df, "fav_place", "Rozklad ulubionych miejsc w grupie")
    \o ChartIf(df, "gender", "Rozklad plci w grupie")

\* the presentation without the st.stop() after the "no peers" message
Presentation_NoStop(cluster_meta, all_df, id) ==
    LET df == same_cluster_df(all_df, id)
        top == <<StHeader("Najblizej Ci do grupy: " \o cluster_name(cluster_meta, id)),
                 StMarkdown(cluster_desc(cluster_meta, id)),
                 StMetric("Liczba osob w Twojej grupie", Len(df.rows))>>
    IN  IF df.rows = <<>>
        THEN top \o <<StInfo("Brak osob w tej grupie (lub brak danych). Dodaj rekordy do data/data.csv.")>>
                 \o Charts(df)
        ELSE top \o Charts(df)

\* everything from st.header down to the end of the script
Presentation(cluster_meta, all_df, id) ==
    LET df == same_cluster_df(all_df, id)
        top == <<StHeader("Najblizej Ci do grupy: " \o cluster_name(cluster_meta, id)),
                 StMarkdown(cluster_desc(cluster_meta, id)),
                 StMetric("Liczba osob w Twojej grupie", Len(df.rows))>>
    IN  IF df.rows = <<>>
        THEN top \o <<StInfo("Brak osob w tej grupie (lub brak danych). Dodaj rekordy do data/data.csv.")>>
        ELSE top \o Charts(df)

\* --------------------------------------------------------------- the run
NoRun ==
    [stage |-> "none", model |-> NoPredictor, model_sig |-> "",
     cluster_meta |-> <<>>, all_df |-> NoTable, pred |-> NoId,
     loaded |-> FALSE, metaRead |-> FALSE, recomputed |-> FALSE,
     bulkHasCluster |-> TRUE, predHasCluster |-> TRUE]

\* a freshly started process with the three files deployed
Init ==
    /\ artifact = [present |-> TRUE, mtime |-> 1, size |-> 1, content |-> "A"]
    /\ metaFile = MetaA
    /\ dataFile = DataA
    /\ modelCache = <<>>
    /\ metaCache = <<>>
    /\ dataCache = <<>>
    /\ out = <<>>
    /\ run = NoRun
    /\ loads = 0
    /\ calls = {}
    /\ writes = 0
    /\ probe = <<>>

\* One run of the script, top to bottom.  person is the form's content;
\* bulkOk and singleOk say whether the two predict_model results carry the
\* Cluster column.
Render(person, bulkOk, singleOk) ==
    LET gm == get_model(MODEL_NAME, modelCache, artifact)
        model == gm.value
        model_sig == get_model_signature(MODEL_NAME, artifact)
        gc == get_cluster_names_and_descriptions(CLUSTERS_JSON, metaCache, metaFile)
        cluster_meta == gc.value
        gp == get_all_participants(DATA_FILE, model, model_sig, dataCache, dataFile, bulkOk)
        all_df == gp.value
        predicted_cluster_id == ClusterOf(model, person)
        shown == Presentation(cluster_meta, all_df, predicted_cluster_id)
        r0 == [NoRun EXCEPT !.loaded = gm.loaded]
        r1 == [r0 EXCEPT !.model = model, !.model_sig = model_sig]
        r2 == [r1 EXCEPT !.cluster_meta = cluster_meta, !.metaRead = gc.read]
        r3 == [r2 EXCEPT !.all_df = all_df, !.recomputed = gp.computed]
        r4 == [r3 EXCEPT !.predHasCluster = singleOk]
    IN  /\ modelCache' = gm.cache
        /\ loads' = IF gm.loaded /\ loads < LoadCap THEN loads + 1 ELSE loads
        /\ IF ~gm.ok
           THEN /\ out' = Sidebar \o <<StException("load_model: FileNotFoundError")>>
                /\ run' = [r0 EXCEPT !.stage = "load_model"]
                /\ UNCHANGED <<metaCache, dataCache, calls>>
           ELSE IF ~gc.ok
           THEN /\ out' = Sidebar \o <<StError(gc.error)>>
                /\ run' = [r1 EXCEPT !.stage = "meta"]
                /\ UNCHANGED <<metaCache, dataCache, calls>>
           ELSE /\ metaCache' = gc.cache
                /\ IF ~gp.ok
                   THEN /\ out' = Sidebar \o <<StError(gp.error)>>
                        /\ run' = [r2 EXCEPT !.stage = gp.stage,
                                             !.bulkHasCluster = gp.stage # "bulk"]
                        /\ UNCHANGED <<dataCache, calls>>
                   ELSE /\ dataCache' = gp.cache
                        /\ calls' = calls \cup {[key |-> <<DATA_FILE, model_sig>>, value |-> all_df]}
                        /\ IF ~singleOk
                           THEN /\ out' = Sidebar \o
                                    <<StError("Brak kolumny 'Cluster' w wyniku predykcji. Sprawdz model i wejscie.")>>
                                /\ run' = [r4 EXCEPT !.stage = "predict"]
                           ELSE /\ out' = Sidebar \o shown
                                /\ run' = [r4 EXCEPT !.pred = predicted_cluster_id,
                                                     !.stage = IF shown[Len(shown)].kind = "info"
                                                               THEN "empty" ELSE "charts"]
        /\ UNCHANGED <<artifact, metaFile, dataFile, writes, probe>>

\* the process is stopped and started again: every cache starts empty
Restart ==
    /\ modelCache' = <<>>
    /\ metaCache' = <<>>
    /\ dataCache' = <<>>
    /\ out' = <<>>
    /\ run' = NoRun
    /\ loads' = 0
    /\ calls' = {}
    /\ UNCHANGED <<artifact, metaFile, dataFile, writes, probe>>

\* the files change between renders
WriteArtifact(file) ==
    /\ writes < MaxWrites
    /\ file # artifact
    /\ artifact' = file
    /\ writes' = writes + 1
    /\ UNCHANGED <<metaFile, dataFile, modelCache, metaCache, dataCache, out, run,
                   loads, calls, probe>>

WriteMeta(file) ==
    /\ writes < MaxWrites
    /\ file # metaFile
    /\ metaFile' = file
    /\ writes' = writes + 1
    /\ UNCHANGED <<artifact, dataFile, modelCache, metaCache, dataCache, out, run,
                   loads, calls, probe>>

WriteData(file) ==
    /\ writes < MaxWrites
    /\ file # dataFile
    /\ dataFile' = file
    /\ writes' = writes + 1
    /\ UNCHANGED <<artifact, metaFile, modelCache, metaCache, dataCache, out, run,
                   loads, calls, probe>>

Next ==
    \/ \E person \in FormInputs, bulkOk \in BOOLEAN, singleOk \in BOOLEAN :
           Render(person, bulkOk, singleOk)
    \/ Restart
    \/ \E file \in Artifacts \cup {NoArtifact} : WriteArtifact(file)
    \/ \E file \in MetaFiles \cup {NoMeta} : WriteMeta(file)
    \/ \E file \in DataFiles \cup {NoData} : WriteData(file)

Spec == Init /\ [][Next]_vars

\* ------------------------------------------------- the signature probe
\* get_model_signature on its own: two calls, the artifact's stat result
\* changing freely between them.
ProbeStats ==
    {[present |-> TRUE, mtime |-> t, size |-> z, content |-> "A"] :
        t \in 1..MaxStat, z \in 1..MaxStat} \cup {NoArtifact}

ProbeInit ==
    /\ artifact \in ProbeStats
    /\ metaFile = NoMeta
    /\ dataFile = NoData
    /\ modelCache = <<>>
    /\ metaCache = <<>>
    /\ dataCache = <<>>
    /\ out = <<>>
    /\ run = NoRun
    /\ loads = 0
    /\ calls = {}
    /\ writes = 0
    /\ probe = <<>>

ProbeCall ==
    /\ Len(probe) < 2
    /\ probe' = Append(probe, [file |-> artifact,
                               sig |-> get_model_signature(MODEL_NAME, artifact)])
    /\ UNCHANGED <<artifact, metaFile, dataFile, modelCache, metaCache, dataCache,
                   out, run, loads, calls, writes>>

ProbeTouch(file) ==
    /\ Len(probe) = 1
    /\ artifact = probe[1].file
    /\ file # artifact
    /\ artifact' = file
    /\ UNCHANGED <<metaFile, dataFile, modelCache, metaCache, dataCache,
                   out, run, loads, calls, writes, probe>>

ProbeNext ==
    \/ ProbeCall
    \/ \E file \in ProbeStats : ProbeTouch(file)

ProbeSpec == ProbeInit /\ [][ProbeNext]_vars

\* ------------------------------------------------------------ properties
\* a step that is a run of the script: the page is drawn, the files stay
RenderStep == out' # <<>> /\ writes' = writes /\ probe' = probe

Kinds(seq) == [k \in 1..Len(seq) |-> seq[k].kind]

\* what the latest render put on the page after the sidebar
Main == SubSeq(out, Len(Sidebar) + 1, Len(out))

ResultKinds == {"header", "markdown", "metric", "info", "chart"}

\* the latest render obtained the participant table
GotTable == run.stage \in {"predict", "empty", "charts"}

\* the latest render got as far as the presentation
Presented == run.stage \in {"empty", "charts"}

Peers == {k \in 1..Len(run.all_df.rows) : run.all_df.rows[k].Cluster = run.pred}

\* C1: get_all_participants is cached by (path, signature): a render whose
\* key has no earlier returned call in this process does not get an earlier
\* table, it reads the file and predicts again (or halts doing so); a render
\* whose key has an earlier returned call gets that call's table and computes
\* nothing, whatever the data file or the artifact holds by now.
C1_CachedBySignature ==
    [][RenderStep /\ run'.stage \notin {"none", "load_model", "meta"} =>
        LET key == <<DATA_FILE, get_model_signature(MODEL_NAME, artifact)>>
            earlier == {c \in calls : c.key = key}
        IN  IF earlier = {}
            THEN \/ run'.stage \in {"participants", "bulk"}
                 \/ /\ run'.recomputed
                    /\ dataFile.present
                    /\ run'.all_df.cols = dataFile.cols \cup {"Cluster"}
                    /\ run'.all_df.rows = predict_model(run'.model, dataFile.rows)
            ELSE /\ GotTable'
                 /\ ~run'.recomputed
                 /\ \A c \in earlier : run'.all_df = c.value]_vars

\* a render recomputed the table because the artifact's size had changed,
\* although the same data had been augmented under the old signature
C1_Witness ==
    /\ GotTable
    /\ run.recomputed
    /\ ~run.loaded
    /\ run.model_sig = "model_4:1:2"
    /\ \E c \in calls : /\ c.key = <<DATA_FILE, "model_4:1:1">>
                        /\ c.value = run.all_df
    /\ Cardinality(calls) = 2

\* C2: get_model loads the artifact at most once in a process: the first
\* call with the artifact present loads it, every later call returns that
\* predictor and loads nothing, even after the artifact has changed.
C2_SingleLoad ==
    [][~Restart =>
        /\ loads' <= 1
        /\ MODEL_NAME \in DOMAIN modelCache => modelCache' = modelCache
        /\ RenderStep =>
              IF MODEL_NAME \in DOMAIN modelCache
              THEN /\ ~run'.loaded
                   /\ run'.model = modelCache[MODEL_NAME]
                   /\ loads' = loads
              ELSE artifact.present =>
                       /\ run'.loaded
                       /\ run'.model = artifact.content
                       /\ loads' = 1]_vars

\* a render used the predictor loaded earlier although the artifact now
\* holds another one
C2_Witness ==
    /\ loads = 1
    /\ run.stage \notin {"none", "load_model"}
    /\ ~run.loaded
    /\ artifact.present
    /\ artifact.content # run.model

\* C3: two calls of get_model_signature agree exactly when the artifact is
\* in both cases missing, or in both cases present with the same
\* modification time and size; a missing artifact gives the bare name.
C3_SignatureSensitive ==
    Len(probe) = 2 =>
        LET a == probe[1]
            b == probe[2]
        IN  /\ (a.sig = b.sig) <=>
                   /\ a.file.present = b.file.present
                   /\ a.file.present =>
                          /\ a.file.mtime = b.file.mtime
                          /\ a.file.size = b.file.size
            /\ ~a.file.present => a.sig = MODEL_NAME
            /\ ~b.file.present => b.sig = MODEL_NAME

\* the digits of mtime and size of the two calls are the same when joined
C3_Witness ==
    /\ Len(probe) = 2
    /\ probe[1].file.present /\ probe[2].file.present
    /\ probe[1].file.mtime = 1 /\ probe[1].file.size = 11
    /\ probe[2].file.mtime = 11 /\ probe[2].file.size = 1

\* C4: the name and the description shown are those of the entry under the
\* string form of the predicted id in the loaded mapping; without such an
\* entry they are "Klaster {id}" and the generic text, and the header is
\* shown all the same.
C4_NameResolution ==
    [][RenderStep /\ run'.pred # NoId =>
        LET meta == IF CLUSTERS_JSON \in DOMAIN metaCache
                    THEN metaCache[CLUSTERS_JSON] ELSE metaFile.map
            key == PyStr(run'.pred)
            header == out'[Len(Sidebar) + 1]
            desc == out'[Len(Sidebar) + 2]
        IN  /\ Len(out') >= Len(Sidebar) + 2
            /\ header.kind = "header"
            /\ desc.kind = "markdown"
            /\ IF key \in DOMAIN meta
               THEN /\ "name" \in DOMAIN meta[key] =>
                          header.text = "Najblizej Ci do grupy: " \o meta[key].name
                    /\ "description" \in DOMAIN meta[key] =>
                          desc.text = meta[key].description
               ELSE /\ header.text = "Najblizej Ci do grupy: Klaster " \o key
                    /\ desc.text =
                         "Brak opisu dla tego klastra. Uzupelnij plik cfg/nazwy_klastrow_4.json."]_vars

\* an integer id was found in the mapping under its string form
C4_Witness ==
    /\ Presented
    /\ run.pred = IntId(0)
    /\ "0" \in DOMAIN run.cluster_meta
    /\ out[Len(Sidebar) + 1].text = "Najblizej Ci do grupy: Explorers"

\* an id without an entry got the fallback name
C4_WitnessAbsent ==
    /\ Presented
    /\ run.pred = StrId("2")
    /\ out[Len(Sidebar) + 1].text = "Najblizej Ci do grupy: Klaster 2"

\* C5: each of the four fatal checks, when the run reaches it and it fails,
\* puts exactly one error on the page and ends the run: the error is the last
\* element, and nothing but the sidebar stands before it.
C5_FatalHalts ==
    [][RenderStep =>
        LET loaded == MODEL_NAME \in DOMAIN modelCache \/ artifact.present
            metaMissing == CLUSTERS_JSON \notin DOMAIN metaCache /\ ~metaFile.present
            miss == <<DATA_FILE, get_model_signature(MODEL_NAME, artifact)>>
                        \notin DOMAIN dataCache
            dataMissing == miss /\ ~dataFile.present
            bulkBad == ~run'.bulkHasCluster
            predBad == ~run'.predHasCluster
            fatal == loaded /\ (metaMissing \/ dataMissing \/ bulkBad \/ predBad)
            errors == {k \in 1..Len(out') : out'[k].kind = "error"}
        IN  /\ fatal =>
                  /\ errors = {Len(out')}
                  /\ \A k \in 1..Len(out') : out'[k].kind \notin ResultKinds
                  /\ Len(out') = Len(Sidebar) + 1
                  /\ run'.pred = NoId
            /\ ~fatal => errors = {}
            /\ loaded /\ metaMissing <=> run'.stage = "meta"
            /\ loaded /\ ~metaMissing /\ dataMissing <=> run'.stage = "participants"
            /\ run'.stage = "participants" =>
                  out'[Len(out')].text = "Brak pliku z danymi: data/data.csv"
            /\ bulkBad <=> run'.stage = "bulk"
            /\ predBad <=> run'.stage = "predict"
            /\ bulkBad => loaded /\ ~metaMissing /\ miss /\ dataFile.present]_vars

\* the data file is gone and the page shows that error and nothing else
C5_Witness ==
    /\ run.stage = "participants"
    /\ ~dataFile.present
    /\ Kinds(Main) = <<"error">>
    /\ CLUSTERS_JSON \in DOMAIN metaCache
    /\ MODEL_NAME \in DOMAIN modelCache

\* C6: when no row of the table has the predicted id, the page shows the
\* header, the description, the metric with 0 and the "no peers" message,
\* and no chart.
C6_EmptyGroup ==
    run.pred # NoId /\ Peers = {} =>
        /\ Kinds(Main) = <<"header", "markdown", "metric", "info">>
        /\ Main[3].value = 0
        /\ Main[4].text =
             "Brak osob w tej grupie (lub brak danych). Dodaj rekordy do data/data.csv."

\* the table has rows and columns, but none in the predicted cluster
C6_Witness ==
    /\ run.stage = "empty"
    /\ Len(run.all_df.rows) > 0
    /\ "gender" \in run.all_df.cols
    /\ Peers = {}

\* C7: once the mapping is cached, every later step of the process leaves
\* it in place, and every later render takes its names from it without
\* reading the file, whatever the file holds then, and also when it is gone.
C7_MetaCachedForever ==
    [][~Restart /\ CLUSTERS_JSON \in DOMAIN metaCache =>
        /\ metaCache' = metaCache
        /\ RenderStep /\ run'.stage \notin {"none", "load_model"} =>
              /\ run'.stage # "meta"
              /\ ~run'.metaRead
              /\ run'.cluster_meta = metaCache[CLUSTERS_JSON]
              /\ run'.pred # NoId =>
                    /\ out'[Len(Sidebar) + 1].text = "Najblizej Ci do grupy: "
                          \o cluster_name(metaCache[CLUSTERS_JSON], run'.pred)
                    /\ out'[Len(Sidebar) + 2].text =
                          cluster_desc(metaCache[CLUSTERS_JSON], run'.pred)]_vars

\* the file was deleted after it had been read, and the page still names
\* the cluster from it
C7_Witness ==
    /\ Presented
    /\ ~run.metaRead
    /\ ~metaFile.present
    /\ run.cluster_meta = MetaA.map
    /\ Main[1].text = "Najblizej Ci do grupy: Explorers"

\* C8: the metric is the number of rows of the table whose Cluster equals
\* the predicted id, and that id is the one whose string form names the
\* cluster in the header.
C8_PeerCount ==
    run.pred # NoId =>
        /\ Len(Main) >= 3
        /\ Main[3].kind = "metric"
        /\ Main[3].value = Cardinality(Peers)
        /\ Main[1].text = "Najblizej Ci do grupy: " \o
               (IF PyStr(run.pred) \in DOMAIN run.cluster_meta
                   /\ "name" \in DOMAIN run.cluster_meta[PyStr(run.pred)]
                THEN run.cluster_meta[PyStr(run.pred)].name
                ELSE "Klaster " \o PyStr(run.pred))

\* some rows are in the integer cluster of the person and some are not
C8_Witness ==
    /\ Presented
    /\ run.pred.ty = "int"
    /\ Cardinality(Peers) = 2
    /\ Len(run.all_df.rows) = 3
    /\ Main[3].value = 2

\* C9: with a peer group, the page shows after the metric one chart for
\* each of age, edu_level, fav_animals, fav_place, gender that the table
\* has, in that order, and none for a column the table lacks.
ChartOrder == <<"age", "edu_level", "fav_animals", "fav_place", "gender">>

C9_ChartsPerColumn ==
    run.pred # NoId /\ Peers # {} =>
        LET charts == {k \in 1..Len(Main) : Main[k].kind = "chart"}
        IN  /\ Kinds(SubSeq(Main, 1, 3)) = <<"header", "markdown", "metric">>
            /\ charts = 4..Len(Main)
            /\ Cardinality(charts) <= 5
            /\ \A i \in 1..Len(ChartOrder) :
                   Cardinality({k \in charts : Main[k].x = ChartOrder[i]}) =
                       IF ChartOrder[i] \in run.all_df.cols THEN 1 ELSE 0
            /\ \A k, l \in charts :
                   k < l => \E i, j \in 1..Len(ChartOrder) :
                                /\ i < j
                                /\ Main[k].x = ChartOrder[i]
                                /\ Main[l].x = ChartOrder[j]

\* the table lacks age and fav_place, and the three other charts are drawn
C9_Witness ==
    /\ run.stage = "charts"
    /\ run.all_df.cols = {"edu_level", "fav_animals", "gender", "Cluster"}
    /\ Kinds(Main) = <<"header", "markdown", "metric", "chart", "chart", "chart">>

\* C10: the table a render filters was computed by the predictor that
\* classifies the person in that render, also when the table was recomputed
\* after the artifact had been replaced by another one.
C10_SameModel ==
    GotTable =>
        /\ run.all_df.by = run.model
        /\ MODEL_NAME \in DOMAIN modelCache
        /\ run.model = modelCache[MODEL_NAME]
        /\ \A key \in DOMAIN dataCache : dataCache[key].by = run.model
        /\ run.pred # NoId => run.pred \in {ClusterOf(run.model, p) : p \in FormInputs}

\* the artifact now holds another predictor under a new signature; the
\* table was computed again, by the predictor loaded before
C10_Witness ==
    /\ GotTable
    /\ run.recomputed
    /\ ~run.loaded
    /\ artifact.present
    /\ artifact.content # run.model
    /\ run.model_sig = get_model_signature(MODEL_NAME, artifact)
    /\ run.all_df.by = run.model

====
